---- MODULE Spec2Model ----
(***************************************************************************)
(* Model of the ML training pipeline's computational core:                 *)
(*   - feature_engineering.py : engineer_features, process_all_symbols     *)
(*   - main.py                : step_feature_engineering                   *)
(*   - train_models.py        : calculate_trading_metrics, prepare_data    *)
(*   - export_models.py, train_online_models.py : their feature columns    *)
(*   - vintage_manager.py     : VintageManager                             *)
(*                                                                         *)
(* A pandas Series is modelled position by position (1-based positions of  *)
(* the date-sorted frame).  Every engineered column is modelled by a cell  *)
(* that records whether the value is set (not NaN) and the window          *)
(* lo..hi of bar positions the value is computed from; the columns whose   *)
(* arithmetic the properties need (close, obv, target, target_return) are  *)
(* computed exactly, as integers or as fractions [num, den].               *)
(***************************************************************************)
EXTENDS Integers, Sequences, FiniteSets, TLC

\* ------------------------------------------------------------------------
\* Bounds of the model
\* ------------------------------------------------------------------------
MaxBars == 8          \* bars per symbol in the free-valued specification
MaxBarsLong == 201    \* bars of the symbol in the long-series specification
MaxBarsOther == 1     \* bars of every further symbol
MaxBarsLongOther == 101  \* bars of the second symbol in the long-series specification
MaxLen == 3           \* length of the prediction / return arrays
MaxSeries == 4        \* bars of the series handed to an indicator
MaxShuffle == 3       \* rows of a frame whose row order is permuted
MaxCall == 3          \* rows of the inputs of the calls made one after another
MaxCallLen == 2       \* length of the arrays of the metric calls made one after another
MaxAdxBars == 3       \* bars of the frame handed to adx
PREC == 3             \* significant decimal digits of the modelled floats
MaxClock == 2         \* minutes the wall clock runs through while vintages are saved
MaxSaves == 5         \* vintages saved for the first model
MaxSavesOther == 2    \* vintages saved for every further model

CloseVals == {1, 2}   \* close prices a fetched bar may carry
\* close prices of the bars of a symbol: free for the first symbol, fixed for
\* every further one
CloseValsOf(sym) == IF sym = "A" THEN CloseVals ELSE {1}
\* history lengths (in bars) a long run may be configured with
HistoryLens == {20, 21, 22, 50, 100, 101, 150, 200, MaxBarsLong}
\* history lengths of the second symbol of a long run
HistoryLensOther == {22, MaxBarsLongOther}
Symbols == <<"A", "B">>

VARIABLES
    data,            \* the raw OHLCV frame: sequence of bar rows
    pc,              \* position of the pipeline run
    features,        \* table returned by the last engineer_features call
    combined,        \* table built by process_all_symbols (after dropna)
    features_data,   \* dict symbol -> table built by step_feature_engineering
    y_pred,          \* predicted labels handed to the metrics evaluator
    returns,         \* realized returns handed to the metrics evaluator
    report,          \* dict returned by calculate_trading_metrics
    indicator,       \* result of the last indicator-library call
    feature_cols,    \* model-input columns chosen by the last consumer of a table
    vintages,        \* VintageManager.vintages: manifest entries, newest first
    dirs,            \* vintage directories on disk: pairs <<modelName, version>>
    now,             \* the wall clock, in minutes
    saved            \* per model, the versions it was saved under, oldest first

vars == <<data, pc, features, combined, features_data, y_pred, returns, report, indicator,
          feature_cols, vintages, dirs, now, saved>>

\* ------------------------------------------------------------------------
\* Small helpers
\* ------------------------------------------------------------------------
Min2(a, b) == IF a <= b THEN a ELSE b

Max2(a, b) == IF a >= b THEN a ELSE b

Sign(x) == IF x > 0 THEN 1 ELSE IF x < 0 THEN -1 ELSE 0

Abs(x) == IF x < 0 THEN -x ELSE x

\* Materialise a function over 1..n as an explicit sequence.
Mat(f) == f \o <<>>

\* ------------------------------------------------------------------------
\* pandas Series cells: set-ness and the window of bar positions read
\* ------------------------------------------------------------------------
NaNCell == [set |-> FALSE, lo |-> 0, hi |-> 0]

SetCell(lo, hi) == [set |-> TRUE, lo |-> lo, hi |-> hi]

\* df['close'], df['high'], ...: a raw column of the n-row frame.
Col(n) == [i \in 1..n |-> SetCell(i, i)]

\* Elementwise arithmetic a (+,-,*,/) b: NaN if either operand is NaN.
Join(a, b) ==
    IF a.set /\ b.set THEN SetCell(Min2(a.lo, b.lo), Max2(a.hi, b.hi)) ELSE NaNCell

BinOp(s, t) == Mat([i \in 1..Len(s) |-> Join(s[i], t[i])])

\* Series.shift(k): position i takes the value of position i-k, NaN outside.
Shift(s, k) ==
    Mat([i \in 1..Len(s) |-> IF i - k \in 1..Len(s) THEN s[i - k] ELSE NaNCell])

\* A differencing that reads the following bar instead of the preceding one;
\* the no-look-ahead property must reject it.
DiffAhead(s) == BinOp(s, Shift(s, -1))

\* Series.diff() and Series.pct_change(p): s against s.shift(p).
Diff(s) == BinOp(s, Shift(s, 1))

PctChange(s, p) == BinOp(s, Shift(s, p))

\* Accumulator over cells: number of set cells seen and the union of their
\* windows.
NoAcc == [n |-> 0, lo |-> 0, hi |-> 0]

AccAdd(acc, c) ==
    IF ~c.set THEN acc
    ELSE IF acc.n = 0 THEN [n |-> 1, lo |-> c.lo, hi |-> c.hi]
    ELSE [n |-> acc.n + 1, lo |-> Min2(acc.lo, c.lo), hi |-> Max2(acc.hi, c.hi)]

AccMerge(x, y) ==
    IF x.n = 0 THEN y
    ELSE IF y.n = 0 THEN x
    ELSE [n |-> x.n + y.n, lo |-> Min2(x.lo, y.lo), hi |-> Max2(x.hi, y.hi)]

\* Accumulation of s[a..b], by halving.
RECURSIVE AccRange(_, _, _)
AccRange(s, a, b) ==
    IF a > b THEN NoAcc
    ELSE IF a = b THEN AccAdd(NoAcc, s[a])
    ELSE LET m == (a + b) \div 2
         IN  AccMerge(AccRange(s, a, m), AccRange(s, m + 1, b))

\* The running accumulations of s[a..b]: entry k accumulates s[a..a+k-1].
RECURSIVE PrefixAcc(_, _, _)
PrefixAcc(s, a, b) ==
    IF a > b THEN <<>>
    ELSE IF a = b THEN <<AccAdd(NoAcc, s[a])>>
    ELSE LET m == (a + b) \div 2
             left == PrefixAcc(s, a, m)
             right == PrefixAcc(s, m + 1, b)
             total == left[Len(left)]
         IN  left \o Mat([k \in 1..Len(right) |-> AccMerge(total, right[k])])

AccCell(acc, mp) == IF acc.n >= mp THEN SetCell(acc.lo, acc.hi) ELSE NaNCell

\* Series.rolling(window=w, min_periods=mp).<aggregate>(): NaN entries of the
\* window are skipped and the result is set once mp valid observations exist.
Rolling(s, w, mp) ==
    Mat([i \in 1..Len(s) |-> AccCell(AccRange(s, Max2(1, i - w + 1), i), mp)])

\* Series.ewm(..., min_periods=mp).mean(): recursive over all earlier
\* observations, set once mp valid observations have been seen.
Ewm(s, mp) ==
    LET pre == PrefixAcc(s, 1, Len(s))
    IN  Mat([i \in 1..Len(s) |-> AccCell(pre[i], mp)])

\* Comparisons with .astype(int), np.where(cond, x, 0) and
\* Series.where(cond, 0): a comparison with NaN is False, so the result is
\* always set; it reads the operands that are set (or nothing but its own
\* position when none is).
Always(s, t) ==
    Mat([i \in 1..Len(s) |->
        IF s[i].set /\ t[i].set THEN Join(s[i], t[i])
        ELSE IF s[i].set THEN s[i]
        ELSE IF t[i].set THEN t[i]
        ELSE SetCell(i, i)])

\* pd.concat([a, b, ...], axis=1).max(axis=1) / .min(axis=1): NaN is skipped.
RowMax(s, t) ==
    LET either == Always(s, t)
    IN  Mat([i \in 1..Len(s) |-> IF s[i].set \/ t[i].set THEN either[i] ELSE NaNCell])

\* Series.cumsum(): NaN stays NaN at its position and is skipped in the sum.
CumSum(s) ==
    LET pre == PrefixAcc(s, 1, Len(s))
    IN  Mat([i \in 1..Len(s) |-> IF s[i].set THEN AccCell(pre[i], 1) ELSE NaNCell])

\* ------------------------------------------------------------------------
\* Indicator library (feature_engineering.py), window level
\* ------------------------------------------------------------------------
\* A moving average that waits for a full window (min_periods = period); with
\* it the 50-bar average would impose a 49-row warm-up.
smaFullWindow(series, period) == Rolling(series, period, period)

smaW(series, period) == Rolling(series, period, 1)

emaW(series, period) == Ewm(series, 1)

rsiW(series, period) ==
    LET delta == Diff(series)
        gain == Always(delta, delta)
        loss == Always(delta, delta)
        avg_gain == Ewm(gain, period)
        avg_loss == Ewm(loss, period)
    IN  BinOp(avg_gain, avg_loss)

macdW(series, fast, slow, signal) ==
    LET macd_line == BinOp(emaW(series, fast), emaW(series, slow))
        signal_line == emaW(macd_line, signal)
    IN  [macd_line |-> macd_line, signal_line |-> signal_line,
         histogram |-> BinOp(macd_line, signal_line)]

bollinger_bandsW(series, period) ==
    LET middle == smaW(series, period)
        std == Rolling(series, period, period)
    IN  [upper |-> BinOp(middle, std), middle |-> middle, lower |-> BinOp(middle, std)]

atrW(high, low, close, period) ==
    LET tr1 == BinOp(high, low)
        tr2 == BinOp(high, Shift(close, 1))
        tr3 == BinOp(low, Shift(close, 1))
        tr == RowMax(RowMax(tr1, tr2), tr3)
    IN  Rolling(tr, period, period)

adxW(high, low, close, period) ==
    LET plus_dm == Always(Diff(high), Diff(low))
        minus_dm == Always(Diff(low), Diff(high))
        tr == atrW(high, low, close, 1)
        plus_di == BinOp(emaW(plus_dm, period), emaW(tr, period))
        minus_di == BinOp(emaW(minus_dm, period), emaW(tr, period))
        dx == BinOp(plus_di, minus_di)
    IN  emaW(dx, period)

obvW(close, volume) == CumSum(BinOp(volume, Diff(close)))

\* ------------------------------------------------------------------------
\* Exact values of the columns whose arithmetic is needed
\* ------------------------------------------------------------------------
Frac(n, d) == [num |-> n, den |-> d]

\* NaN is carried as the fraction 0/0.
NaN == Frac(0, 0)

\* obv(close, volume), by value: np.sign(close.diff()) is NaN at the first
\* position, and cumsum leaves that NaN in place and skips it in the sum.
RECURSIVE PrefixSum(_, _, _)
PrefixSum(x, a, b) ==
    IF a > b THEN <<>>
    ELSE IF a = b THEN <<x[a]>>
    ELSE LET m == (a + b) \div 2
             left == PrefixSum(x, a, m)
             right == PrefixSum(x, m + 1, b)
         IN  left \o Mat([k \in 1..Len(right) |-> left[Len(left)] + right[k]])

obv(s) ==
    LET flow == Mat([i \in 1..Len(s) |->
                    IF i = 1 THEN 0
                    ELSE s[i].volume * Sign(s[i].close - s[i - 1].close)])
        cum == PrefixSum(flow, 1, Len(s))
    IN  Mat([i \in 1..Len(s) |-> IF i = 1 THEN NaN ELSE Frac(cum[i], 1)])

\* pct_change(-1) without the sign flip.
target_returnUnflipped(s, i) ==
    IF i + 1 > Len(s) THEN NaN
    ELSE Frac(s[i].close - s[i + 1].close, s[i + 1].close)

\* close.pct_change(-1) * -1 at position i: close[i] / close[i+1] - 1,
\* sign-flipped; NaN on the last row, which has no next bar.
target_return(s, i) ==
    IF i + 1 > Len(s) THEN NaN
    ELSE Frac(-1 * (s[i].close - s[i + 1].close), s[i + 1].close)

\* A label that also counts an unchanged close as a rise.
targetNonStrict(s, i) ==
    IF i + 1 > Len(s) THEN 0
    ELSE IF s[i + 1].close >= s[i].close THEN 1 ELSE 0

\* (close.shift(-1) > close).astype(int): the comparison with the NaN of the
\* last row is False, hence 0.
target(s, i) ==
    IF i + 1 > Len(s) THEN 0
    ELSE IF s[i + 1].close > s[i].close THEN 1 ELSE 0

\* ------------------------------------------------------------------------
\* engineer_features
\* ------------------------------------------------------------------------
\* The frame in the order the caller gave it.
KeepOrder(df) == df

\* df.sort_values('date').reset_index(drop=True): every row goes to the
\* position given by the number of rows dated before it (dates are unique
\* within a symbol's frame).
SortByDate(df) ==
    LET n == Len(df)
        rank == Mat([i \in 1..n |-> 1 + Cardinality({j \in 1..n : df[j].date < df[i].date})])
    IN  Mat([k \in 1..n |-> df[CHOOSE i \in 1..n : rank[i] = k]])

LabelCols == <<"target", "target_return">>

\* The engineered columns, in the order engineer_features inserts them.
FeatureCols ==
    <<"returns_1d", "log_returns_1d", "returns_2d", "log_returns_2d",
      "returns_3d", "log_returns_3d", "returns_5d", "log_returns_5d",
      "returns_10d", "log_returns_10d", "returns_20d", "log_returns_20d",
      "sma_5", "ema_5", "sma_10", "ema_10", "sma_20", "ema_20", "sma_50", "ema_50",
      "price_to_sma5", "price_to_sma10", "price_to_sma20", "price_to_sma50",
      "sma_5_10_cross", "sma_10_20_cross", "sma_20_50_cross",
      "rsi_7", "rsi_14", "rsi_21",
      "momentum_5d", "roc_5d", "momentum_10d", "roc_10d", "momentum_20d", "roc_20d",
      "macd", "macd_signal", "macd_histogram", "macd_cross",
      "volatility_5d", "volatility_10d", "volatility_20d",
      "atr_5", "atr_10", "atr_14", "atr_pct_5", "atr_pct_14",
      "bb_position", "bb_width", "adx_14", "trend_strength",
      "volume_sma_5", "volume_sma_10", "volume_ratio", "obv", "obv_change",
      "body_ratio", "upper_shadow", "lower_shadow",
      "higher_high", "lower_low", "higher_close",
      "skewness", "kurtosis", "zscore">>

Range(seq) == {seq[i] : i \in 1..Len(seq)}

\* obv_values.pct_change(5): obv[i] / obv[i-5] - 1, which is NaN (0/0) when
\* both are zero and +-inf (a set value for dropna) when only the divisor is.
obv_changeW(s, obvw) ==
    LET ov == obv(s)
        pc5 == PctChange(obvw, 5)
    IN  Mat([i \in 1..Len(s) |->
            IF pc5[i].set /\ ov[i].num = 0 /\ ov[i - 5].num = 0 THEN NaNCell ELSE pc5[i]])

\* The window-level series of every engineered column over the sorted frame s.
FeatureSeries(s) ==
    LET n == Len(s)
        close == Col(n)
        high == Col(n)
        low == Col(n)
        volume == Col(n)
        open_price == Col(n)
        daily_returns == PctChange(close, 1)
        ret(p) == PctChange(close, p)
        logret(p) == BinOp(close, Shift(close, p))
        mom(p) == BinOp(close, Shift(close, p))
        vol(p) == Rolling(daily_returns, p, p)
        sma5 == smaW(close, 5)
        sma10 == smaW(close, 10)
        sma20 == smaW(close, 20)
        sma50 == smaW(close, 50)
        m == macdW(close, 12, 26, 9)
        atr5 == atrW(high, low, close, 5)
        atr14 == atrW(high, low, close, 14)
        bb == bollinger_bandsW(close, 20)
        bbrange == BinOp(bb.upper, bb.lower)
        above(ma) == Always(close, ma)
        vsma10 == smaW(volume, 10)
        obv_values == obvW(close, volume)
        body == BinOp(close, open_price)
        range_hl == BinOp(high, low)
        co == RowMax(close, open_price)
        stat == Rolling(daily_returns, 20, 20)
    IN  [returns_1d |-> ret(1), log_returns_1d |-> logret(1),
         returns_2d |-> ret(2), log_returns_2d |-> logret(2),
         returns_3d |-> ret(3), log_returns_3d |-> logret(3),
         returns_5d |-> ret(5), log_returns_5d |-> logret(5),
         returns_10d |-> ret(10), log_returns_10d |-> logret(10),
         returns_20d |-> ret(20), log_returns_20d |-> logret(20),
         sma_5 |-> sma5, ema_5 |-> emaW(close, 5),
         sma_10 |-> sma10, ema_10 |-> emaW(close, 10),
         sma_20 |-> sma20, ema_20 |-> emaW(close, 20),
         sma_50 |-> sma50, ema_50 |-> emaW(close, 50),
         price_to_sma5 |-> BinOp(close, sma5),
         price_to_sma10 |-> BinOp(close, sma10),
         price_to_sma20 |-> BinOp(close, sma20),
         price_to_sma50 |-> BinOp(close, sma50),
         sma_5_10_cross |-> BinOp(sma5, sma10),
         sma_10_20_cross |-> BinOp(sma10, sma20),
         sma_20_50_cross |-> BinOp(sma20, sma50),
         rsi_7 |-> rsiW(close, 7), rsi_14 |-> rsiW(close, 14),
         rsi_21 |-> rsiW(close, 21),
         momentum_5d |-> mom(5), roc_5d |-> mom(5),
         momentum_10d |-> mom(10), roc_10d |-> mom(10),
         momentum_20d |-> mom(20), roc_20d |-> mom(20),
         macd |-> m.macd_line, macd_signal |-> m.signal_line,
         macd_histogram |-> m.histogram,
         macd_cross |-> BinOp(m.macd_line, m.signal_line),
         volatility_5d |-> vol(5), volatility_10d |-> vol(10),
         volatility_20d |-> vol(20),
         atr_5 |-> atr5, atr_10 |-> atrW(high, low, close, 10), atr_14 |-> atr14,
         atr_pct_5 |-> BinOp(atr5, close), atr_pct_14 |-> BinOp(atr14, close),
         bb_position |-> BinOp(BinOp(close, bb.lower), bbrange),
         bb_width |-> BinOp(bbrange, bb.middle),
         adx_14 |-> adxW(high, low, close, 14),
         trend_strength |->
             BinOp(BinOp(above(sma5), above(sma10)), BinOp(above(sma20), above(sma50))),
         volume_sma_5 |-> smaW(volume, 5), volume_sma_10 |-> vsma10,
         volume_ratio |-> BinOp(volume, vsma10),
         obv |-> obv_values, obv_change |-> obv_changeW(s, obv_values),
         body_ratio |-> BinOp(body, range_hl),
         upper_shadow |-> BinOp(BinOp(high, co), range_hl),
         lower_shadow |-> BinOp(BinOp(co, low), range_hl),
         higher_high |-> Always(high, Shift(high, 1)),
         lower_low |-> Always(low, Shift(low, 1)),
         higher_close |-> Always(close, Shift(close, 1)),
         skewness |-> stat, kurtosis |-> stat,
         zscore |-> BinOp(BinOp(daily_returns, stat), stat),
         target |-> Always(Shift(close, -1), close),
         target_return |-> PctChange(close, -1)]

engineer_features(df) ==
    LET s == SortByDate(df)
        fs == FeatureSeries(s)
        cols == Range(FeatureCols) \cup Range(LabelCols)
    IN  Mat([i \in 1..Len(s) |->
            [date |-> s[i].date, symbol |-> s[i].symbol,
             asset_class |-> s[i].asset_class, close |-> s[i].close,
             cells |-> [c \in cols |-> fs[c][i]],
             target |-> target(s, i),
             target_return |-> target_return(s, i)]])

\* A row survives DataFrame.dropna() iff no column of it is NaN.
HasNaN(row) ==
    \/ \E c \in DOMAIN row.cells : ~row.cells[c].set
    \/ row.target_return = NaN

dropna(table) == SelectSeq(table, LAMBDA row : ~HasNaN(row))

\* ------------------------------------------------------------------------
\* The frame and its consumers
\* ------------------------------------------------------------------------
\* Only the first of the symbol's rows.
SelectFirst(df, sym) == SubSeq(SelectSeq(df, LAMBDA r : r.symbol = sym), 1, 1)

\* The symbol's rows followed by the first row of another symbol, as the
\* next bar.
SelectWithNext(df, sym) ==
    LET own == SelectSeq(df, LAMBDA r : r.symbol = sym)
        others == SelectSeq(df, LAMBDA r : r.symbol # sym)
    IN  IF others = <<>> THEN own
        ELSE Append(own, [others[1] EXCEPT !.date = Len(own) + 1])

SelectSeq2(df, sym) == SelectSeq(df, LAMBDA r : r.symbol = sym)

\* df['symbol'].unique(): the symbols in order of first appearance.
RECURSIVE unique(_, _, _)
unique(df, a, b) ==
    IF a > b THEN <<>>
    ELSE IF a = b THEN <<df[a].symbol>>
    ELSE LET m == (a + b) \div 2
             left == unique(df, a, m)
         IN  left \o SelectSeq(unique(df, m + 1, b), LAMBDA sym : sym \notin Range(left))

RECURSIVE concat(_)
concat(tables) ==
    IF tables = <<>> THEN <<>> ELSE Head(tables) \o concat(Tail(tables))

\* process_all_symbols: engineer every symbol's rows, concatenate, dropna.
process_all_symbols(df) ==
    LET symbols == unique(df, 1, Len(df))
        all_features ==
            [k \in 1..Len(symbols) |-> engineer_features(SelectSeq2(df, symbols[k]))]
    IN  dropna(concat(all_features))

MIN_ROWS == 100

\* step_feature_engineering: a symbol's table is kept iff it has more than
\* MIN_ROWS rows; the table is what engineer_features returned.
step_feature_engineering(df) ==
    LET symbols == unique(df, 1, Len(df))
        features_df(sym) == engineer_features(SelectSeq2(df, sym))
        kept == {sym \in Range(symbols) : Len(features_df(sym)) > MIN_ROWS}
    IN  [sym \in kept |-> features_df(sym)]

NoTable == <<>>

NoDict == [sym \in {} |-> NoTable]

Bar(sym, d, c) ==
    [symbol |-> sym, asset_class |-> "equity", date |-> d,
     open |-> c, high |-> c, low |-> c, close |-> c, volume |-> 1]

SymbolIndex(sym) == CHOOSE k \in 1..Len(Symbols) : Symbols[k] = sym

Count(df, sym) == Cardinality({i \in 1..Len(df) : df[i].symbol = sym})

\* fetch_all_data appends the symbols' frames one after the other, each in
\* ascending date order.
CanFetch(sym) ==
    /\ pc = "fetch"
    /\ \A r \in Range(data) : SymbolIndex(r.symbol) <= SymbolIndex(sym)

FetchBar(sym, c) ==
    /\ CanFetch(sym)
    /\ Count(data, sym) < (IF sym = Symbols[1] THEN MaxBars ELSE MaxBarsOther)
    /\ data' = Append(data, Bar(sym, Count(data, sym) + 1, c))
    /\ UNCHANGED <<pc, features, combined, features_data, y_pred, returns, report, indicator,
                 feature_cols, vintages, dirs, now, saved>>

\* The long series: one symbol whose close rises by one every bar.
FetchBarLong ==
    /\ CanFetch(Symbols[1])
    /\ Len(data) < MaxBarsLong
    /\ data' = Append(data, Bar(Symbols[1], Len(data) + 1, Len(data) + 1))
    /\ UNCHANGED <<pc, features, combined, features_data, y_pred, returns, report, indicator,
                 feature_cols, vintages, dirs, now, saved>>

\* The second symbol of a long run, fetched after the first symbol's history
\* is complete: its close rises by two every bar.
FetchBarLongOther ==
    /\ CanFetch(Symbols[2])
    /\ Count(data, Symbols[1]) \in HistoryLens
    /\ Count(data, Symbols[2]) < MaxBarsLongOther
    /\ data' = Append(data, Bar(Symbols[2], Count(data, Symbols[2]) + 1,
                                2 * (Count(data, Symbols[2]) + 1)))
    /\ UNCHANGED <<pc, features, combined, features_data, y_pred, returns, report, indicator,
                 feature_cols, vintages, dirs, now, saved>>

\* fetch_all_data returns once the configured history has been fetched.
FinishFetch ==
    /\ pc = "fetch"
    /\ data # <<>>
    /\ \/ Len(data) <= MaxBars + MaxBarsOther
       \/ /\ Count(data, Symbols[1]) \in HistoryLens
          /\ Count(data, Symbols[2]) \in HistoryLensOther \cup {0}
    /\ pc' = "ready"
    /\ UNCHANGED <<data, features, combined, features_data, y_pred, returns, report, indicator,
                 feature_cols, vintages, dirs, now, saved>>

\* The frame handed to the feature procedures lists its rows in whatever
\* order the caller has them: two neighbouring rows change places.
ShuffleRows(i) ==
    /\ pc = "ready"
    /\ Len(data) <= MaxShuffle
    /\ i \in 1..(Len(data) - 1)
    /\ data' = [data EXCEPT ![i] = data[i + 1], ![i + 1] = data[i]]
    /\ UNCHANGED <<pc, features, combined, features_data, y_pred, returns, report, indicator,
                   feature_cols, vintages, dirs, now, saved>>

\* A call engineer_features(symbol_df) on one symbol's rows, as made by
\* export_all_models and by the two procedures below.
EngineerFeatures(sym) ==
    /\ pc = "ready"
    /\ sym \in Range(unique(data, 1, Len(data)))
    /\ features' = engineer_features(SelectSeq2(data, sym))
    /\ pc' = "engineered"
    /\ UNCHANGED <<data, combined, features_data, y_pred, returns, report, indicator,
                 feature_cols, vintages, dirs, now, saved>>

\* The next call of the per-symbol loop: engineer_features on another
\* symbol's rows while the caller still holds the previous call's table.
EngineerAgain(sym) ==
    /\ pc = "engineered"
    /\ sym \in Range(unique(data, 1, Len(data)))
    /\ features' = engineer_features(SelectSeq2(data, sym))
    /\ UNCHANGED <<data, pc, combined, features_data, y_pred, returns, report, indicator,
                   feature_cols, vintages, dirs, now, saved>>

ProcessAllSymbols ==
    /\ pc = "ready"
    /\ combined' = process_all_symbols(data)
    /\ pc' = "processed"
    /\ UNCHANGED <<data, features, features_data, y_pred, returns, report, indicator,
                 feature_cols, vintages, dirs, now, saved>>

StepFeatureEngineering ==
    /\ pc = "ready"
    /\ features_data' = step_feature_engineering(data)
    /\ pc' = "features"
    /\ UNCHANGED <<data, features, combined, y_pred, returns, report, indicator,
                 feature_cols, vintages, dirs, now, saved>>

\* ------------------------------------------------------------------------
\* The feature-column sets of the consumers of the engineered table
\* ------------------------------------------------------------------------
\* The columns of the table engineer_features returns, in insertion order.
Columns == <<"date", "symbol", "asset_class", "close">> \o FeatureCols \o LabelCols

\* An exclusion list that leaves the raw moving averages and obv in.
ExcludeMetaAndLabels ==
    <<"date", "symbol", "asset_class", "close", "target", "target_return">>

EXCLUDE_COLS ==
    <<"date", "symbol", "asset_class", "close", "target", "target_return",
      "sma_5", "sma_10", "sma_20", "sma_50", "ema_5", "ema_10", "ema_20", "ema_50",
      "volume_sma_5", "volume_sma_10", "obv">>

\* export_all_models carries its own copy of the list.
exclude_cols ==
    <<"date", "symbol", "asset_class", "close", "target", "target_return",
      "sma_5", "sma_10", "sma_20", "sma_50", "ema_5", "ema_10", "ema_20", "ema_50",
      "volume_sma_5", "volume_sma_10", "obv">>

\* The list of the fallback path of train_online_models.
fallback_exclude == <<"date", "symbol", "asset_class", "target", "close">>

\* [c for c in columns if c not in excluded]
NotIn(columns, excluded) == SelectSeq(columns, LAMBDA c : c \notin Range(excluded))

\* The feature_cols that prepare_data returns for a table with these columns.
prepare_data(columns) == NotIn(columns, EXCLUDE_COLS)

\* The feature_cols of export_all_models.
export_all_models(columns) == NotIn(columns, exclude_cols)

\* The feature_cols of train_online_models: the scaler's feature_names if the
\* scaler file has a non-empty list, else the fallback list.  A scaler name
\* that is not a column of the table raises, leaving no feature_cols.
train_online_models(columns, feature_names) ==
    IF feature_names = <<>> THEN NotIn(columns, fallback_exclude)
    ELSE IF Range(feature_names) \ Range(columns) # {} THEN <<>>
    ELSE feature_names

\* step_train_models: train_and_evaluate calls prepare_data on the combined
\* table and records its feature_cols as the run's feature_names.
StepTrainModels ==
    /\ pc = "features"
    /\ DOMAIN features_data # {}
    /\ feature_cols' = [consumer |-> "prepare_data", cols |-> prepare_data(Columns),
                        feature_names |-> prepare_data(Columns)]
    /\ pc' = "trained"
    /\ UNCHANGED <<data, features, combined, features_data, y_pred, returns, report,
                   indicator, vintages, dirs, now, saved>>

\* step_export_models: export_all_models re-engineers the raw frame, selects
\* its own feature_cols and writes the run's feature_names to scaler.json.
ExportAllModels ==
    /\ pc = "trained"
    /\ feature_cols' = [feature_cols EXCEPT !.consumer = "export_all_models",
                                            !.cols = export_all_models(Columns)]
    /\ pc' = "exported"
    /\ UNCHANGED <<data, features, combined, features_data, y_pred, returns, report,
                   indicator, vintages, dirs, now, saved>>

\* step_train_online_models: the scaler file at scaler_path either carries
\* the feature_names written by the export or has none.
StepTrainOnlineModels(has_names) ==
    /\ pc = "exported"
    /\ feature_cols' =
           [feature_cols EXCEPT
               !.consumer = "train_online_models",
               !.cols = train_online_models(
                            Columns, IF has_names THEN feature_cols.feature_names ELSE <<>>)]
    /\ pc' = "online"
    /\ UNCHANGED <<data, features, combined, features_data, y_pred, returns, report,
                   indicator, vintages, dirs, now, saved>>

\* ------------------------------------------------------------------------
\* Floating point.  A float64 is modelled as a decimal floating-point number
\* of PREC significant digits, m * 10^e, with the IEEE special values and
\* the float64 overflow threshold.
\* ------------------------------------------------------------------------
Pow10(k) == <<1, 10, 100, 1000, 10000, 100000, 1000000, 10000000, 100000000, 1000000000>>[k + 1]

FNaN == [k |-> "nan", m |-> 0, e |-> 0]

FInf(sign) == [k |-> "inf", m |-> sign, e |-> 0]

Zero == [k |-> "fin", m |-> 0, e |-> 0]

\* np.finfo(np.float64).max = 1.7976931e308, to PREC digits
DBL_MAX_MANT == 1797693 \div Pow10(7 - PREC)

DBL_MAX_EXP == 308 - (PREC - 1)

DBL_MAX == [k |-> "fin", m |-> DBL_MAX_MANT, e |-> DBL_MAX_EXP]

IsNaN(x) == x.k = "nan"

IsFinite(x) == x.k = "fin"

\* The float nearest to m * 10^e: PREC digits, rounded; beyond the largest
\* float it is an infinity, below the smallest it is zero.
RECURSIVE Norm(_, _)
Norm(m, e) ==
    IF m = 0 THEN Zero
    ELSE IF Abs(m) >= Pow10(PREC) THEN Norm(Sign(m) * ((Abs(m) + 5) \div 10), e + 1)
    ELSE IF Abs(m) < Pow10(PREC - 1) THEN Norm(m * 10, e - 1)
    ELSE IF e > DBL_MAX_EXP \/ (e = DBL_MAX_EXP /\ Abs(m) > DBL_MAX_MANT) THEN FInf(Sign(m))
    ELSE IF e < -323 - PREC THEN Zero
    ELSE [k |-> "fin", m |-> m, e |-> e]

FromInt(n) == Norm(n, 0)

Neg(x) == [x EXCEPT !.m = -x.m]

FAbs(x) == [x EXCEPT !.m = Abs(x.m)]

Add(a, b) ==
    IF IsNaN(a) \/ IsNaN(b) THEN FNaN
    ELSE IF a.k = "inf" /\ b.k = "inf" THEN (IF a.m = b.m THEN a ELSE FNaN)
    ELSE IF a.k = "inf" THEN a
    ELSE IF b.k = "inf" THEN b
    ELSE IF a.m = 0 THEN b
    ELSE IF b.m = 0 THEN a
    ELSE IF a.e - b.e > PREC + 1 THEN a
    ELSE IF b.e - a.e > PREC + 1 THEN b
    ELSE LET e == Min2(a.e, b.e)
         IN  Norm(a.m * Pow10(a.e - e) + b.m * Pow10(b.e - e), e)

Sub(a, b) == Add(a, Neg(b))

Mul(a, b) ==
    IF IsNaN(a) \/ IsNaN(b) THEN FNaN
    ELSE IF a.k = "inf" \/ b.k = "inf"
         THEN (IF a.m = 0 \/ b.m = 0 THEN FNaN ELSE FInf(Sign(a.m) * Sign(b.m)))
    ELSE Norm(a.m * b.m, a.e + b.e)

Div(a, b) ==
    IF IsNaN(a) \/ IsNaN(b) THEN FNaN
    ELSE IF a.k = "inf" THEN (IF b.k = "inf" THEN FNaN
                              ELSE FInf(a.m * (IF b.m < 0 THEN -1 ELSE 1)))
    ELSE IF b.k = "inf" THEN Zero
    ELSE IF b.m = 0 THEN (IF a.m = 0 THEN FNaN ELSE FInf(Sign(a.m)))
    ELSE Norm(Sign(a.m) * Sign(b.m) * ((Abs(a.m) * Pow10(PREC + 1)) \div Abs(b.m)),
              a.e - b.e - (PREC + 1))

\* a < b and a > b; every comparison with NaN is False.
Less(a, b) ==
    IF IsNaN(a) \/ IsNaN(b) THEN FALSE
    ELSE IF a.k = "inf" /\ b.k = "inf" THEN a.m < b.m
    ELSE IF a.k = "inf" THEN a.m < 0
    ELSE IF b.k = "inf" THEN b.m > 0
    ELSE Sub(a, b).m < 0

Greater(a, b) == Less(b, a)

LessEq(a, b) == Less(a, b) \/ (~IsNaN(a) /\ a = b)

\* Largest r with r * r <= x, for lo * lo <= x < hi * hi.
RECURSIVE ISqrt(_, _, _)
ISqrt(x, lo, hi) ==
    IF hi - lo <= 1 THEN lo
    ELSE LET mid == (lo + hi) \div 2
         IN  IF mid * mid <= x THEN ISqrt(x, mid, hi) ELSE ISqrt(x, lo, mid)

Sqrt(x) ==
    IF IsNaN(x) \/ x.m < 0 THEN FNaN
    ELSE IF x.k = "inf" \/ x.m = 0 THEN x
    ELSE LET k == IF (x.e - PREC) % 2 = 0 THEN PREC ELSE PREC + 1
         IN  Norm(ISqrt(x.m * Pow10(k), 0, 46340), (x.e - k) \div 2)

\* np.clip(x, lo, hi): NaN stays NaN.
Clip(x, lo, hi) ==
    IF IsNaN(x) THEN x
    ELSE IF Less(x, lo) THEN lo
    ELSE IF Greater(x, hi) THEN hi
    ELSE x

\* Python's builtin max(a, b) and min(a, b): a unless b compares beyond it.
PyMax(a, b) == IF Greater(b, a) THEN b ELSE a

PyMin(a, b) == IF Less(b, a) THEN b ELSE a

\* ------------------------------------------------------------------------
\* calculate_trading_metrics (train_models.py)
\* ------------------------------------------------------------------------
\* np.sum: left to right from 0.0.
RECURSIVE FSum(_)
FSum(xs) ==
    IF xs = <<>> THEN Zero
    ELSE Add(FSum(SubSeq(xs, 1, Len(xs) - 1)), xs[Len(xs)])

\* np.mean: sum / n.
Mean(xs) == Div(FSum(xs), FromInt(Len(xs)))

\* np.std (ddof = 0): sqrt(mean(|x - mean(x)|^2)).
Std(xs) ==
    LET mu == Mean(xs)
        sq == Mat([i \in 1..Len(xs) |-> Mul(Sub(xs[i], mu), Sub(xs[i], mu))])
    IN  Sqrt(Mean(sq))

\* np.cumprod and np.maximum.accumulate.
RECURSIVE CumProd(_)
CumProd(xs) ==
    IF Len(xs) <= 1 THEN xs
    ELSE LET front == CumProd(SubSeq(xs, 1, Len(xs) - 1))
         IN  Append(front, Mul(front[Len(front)], xs[Len(xs)]))

NpMaximum(a, b) ==
    IF IsNaN(a) THEN a ELSE IF IsNaN(b) THEN b ELSE IF Less(a, b) THEN b ELSE a

NpMinimum(a, b) ==
    IF IsNaN(a) THEN a ELSE IF IsNaN(b) THEN b ELSE IF Less(b, a) THEN b ELSE a

RECURSIVE MaxAccumulate(_)
MaxAccumulate(xs) ==
    IF Len(xs) <= 1 THEN xs
    ELSE LET front == MaxAccumulate(SubSeq(xs, 1, Len(xs) - 1))
         IN  Append(front, NpMaximum(front[Len(front)], xs[Len(xs)]))

\* np.min of a non-empty array.
RECURSIVE NpMin(_)
NpMin(xs) ==
    IF Len(xs) = 1 THEN xs[1]
    ELSE NpMinimum(NpMin(SubSeq(xs, 1, Len(xs) - 1)), xs[Len(xs)])

\* np.nan_to_num(x, 0): the positional 0 is copy=False; NaN becomes 0.0 and
\* the infinities become the largest finite floats.
nan_to_num(x) ==
    IF IsNaN(x) THEN Zero
    ELSE IF x.k = "inf" THEN (IF x.m > 0 THEN DBL_MAX ELSE Neg(DBL_MAX))
    ELSE x

EPS == Norm(1, -10)

TRADE_EPS == Norm(1, -6)

SQRT_252 == Sqrt(FromInt(252))

ReportKeys ==
    {"sharpe_ratio", "max_drawdown", "win_rate", "profit_factor", "total_trades",
     "avg_return", "volatility", "calmar_ratio", "sortino_ratio"}

\* A degenerate report whose profit factor is 0 instead of 1.
ZeroReport ==
    [sharpe_ratio |-> Zero, max_drawdown |-> Zero, win_rate |-> Zero,
     profit_factor |-> Zero, total_trades |-> 0, avg_return |-> Zero,
     volatility |-> Zero, calmar_ratio |-> Zero, sortino_ratio |-> Zero]

DefaultReport ==
    [sharpe_ratio |-> Zero, max_drawdown |-> Zero, win_rate |-> Zero,
     profit_factor |-> FromInt(1), total_trades |-> 0, avg_return |-> Zero,
     volatility |-> Zero, calmar_ratio |-> Zero, sortino_ratio |-> Zero]

\* Strategy returns with the positions inverted (1 -> short, 0 -> long).
StrategyReturnsInverted(yp, rets) ==
    LET positions == Mat([i \in 1..Len(yp) |-> FromInt(1 - 2 * yp[i])])
        raw == Mat([i \in 1..Len(yp) |-> Mul(positions[i], rets[i])])
        filled == Mat([i \in 1..Len(raw) |-> nan_to_num(raw[i])])
    IN  SelectSeq(filled, IsFinite)

\* positions = 2 * y_pred - 1; strategy_returns = positions * returns,
\* passed through nan_to_num and the isfinite mask.
StrategyReturns(yp, rets) ==
    LET positions == Mat([i \in 1..Len(yp) |-> FromInt(2 * yp[i] - 1)])
        raw == Mat([i \in 1..Len(yp) |-> Mul(positions[i], rets[i])])
        filled == Mat([i \in 1..Len(raw) |-> nan_to_num(raw[i])])
    IN  SelectSeq(filled, IsFinite)

calculate_trading_metrics(yp, rets) ==
    LET strategy_returns == StrategyReturns(yp, rets)
        n == Len(strategy_returns)
        mean_return == Mean(strategy_returns)
        std_return == Std(strategy_returns)
        sharpe_ratio == Mul(Div(mean_return, Add(std_return, EPS)), SQRT_252)
        cumulative == CumProd(Mat([i \in 1..n |-> Add(FromInt(1), strategy_returns[i])]))
        running_max == MaxAccumulate(cumulative)
        drawdown == Mat([i \in 1..n |->
                        Div(Sub(cumulative[i], running_max[i]), Add(running_max[i], EPS))])
        max_drawdown == NpMin(drawdown)
        wins == Len(SelectSeq(strategy_returns, LAMBDA x : Greater(x, Zero)))
        total_trades == Len(SelectSeq(strategy_returns, LAMBDA x : Greater(FAbs(x), TRADE_EPS)))
        win_rate == Div(FromInt(wins), FromInt(Max2(total_trades, 1)))
        gross_profit == FSum(SelectSeq(strategy_returns, LAMBDA x : Greater(x, Zero)))
        gross_loss == FAbs(FSum(SelectSeq(strategy_returns, LAMBDA x : Less(x, Zero))))
        profit_factor == Div(gross_profit, PyMax(gross_loss, EPS))
        volatility == Mul(std_return, SQRT_252)
        annual_return == Mul(mean_return, FromInt(252))
        calmar_ratio == Div(annual_return, FAbs(PyMin(max_drawdown, Norm(-1, -3))))
        downside_returns == SelectSeq(strategy_returns, LAMBDA x : Less(x, Zero))
        downside_std == IF Len(downside_returns) > 0 THEN Std(downside_returns) ELSE EPS
        sortino_ratio == Mul(Div(mean_return, Add(downside_std, EPS)), SQRT_252)
    IN  IF n = 0 THEN DefaultReport
        ELSE [sharpe_ratio |-> Clip(sharpe_ratio, FromInt(-10), FromInt(10)),
              max_drawdown |-> max_drawdown,
              win_rate |-> win_rate,
              profit_factor |-> Clip(profit_factor, Zero, FromInt(10)),
              total_trades |-> total_trades,
              avg_return |-> mean_return,
              volatility |-> volatility,
              calmar_ratio |-> Clip(calmar_ratio, FromInt(-10), FromInt(10)),
              sortino_ratio |-> Clip(sortino_ratio, FromInt(-10), FromInt(10))]

\* Returns a caller may pass: NaN, the infinities, zero, two ordinary moves,
\* a move below the trade threshold and a loss of more than everything.
RetVals == {FNaN, FInf(1), FInf(-1), Zero, Norm(1, -2), Norm(5, -1), Norm(5, -7), FromInt(-2)}

\* One more aligned (prediction, realized return) pair of the evaluation slice.
Observe(p, r) ==
    /\ pc = "predict"
    /\ Len(y_pred) < MaxLen
    /\ y_pred' = Append(y_pred, p)
    /\ returns' = Append(returns, r)
    /\ UNCHANGED <<data, pc, features, combined, features_data, report, indicator,
                 feature_cols, vintages, dirs, now, saved>>

CalculateTradingMetrics ==
    /\ pc = "predict"
    /\ report' = calculate_trading_metrics(y_pred, returns)
    /\ pc' = "evaluated"
    /\ UNCHANGED <<data, features, combined, features_data, y_pred, returns, indicator,
                 feature_cols, vintages, dirs, now, saved>>

\* ------------------------------------------------------------------------
\* Indicator library (feature_engineering.py), value level.  A Series is a
\* sequence of floats, NaN marking an unset position.
\* ------------------------------------------------------------------------
IsSet(x) == ~IsNaN(x)

\* The set (non-NaN) entries of vals[a..b].
Valid(vals, a, b) == SelectSeq(SubSeq(vals, a, b), IsSet)

\* Series.rolling(window, min_periods).mean(): the mean of the set entries of
\* the window, once there are min_periods of them.
RollingMean(vals, window, min_periods) ==
    Mat([i \in 1..Len(vals) |->
        LET win == Valid(vals, Max2(1, i - window + 1), i)
        IN  IF Len(win) >= min_periods THEN Mean(win) ELSE FNaN])

\* Sample standard deviation (ddof = 1), the default of Series.std().
SampleStd(xs) ==
    LET mu == Mean(xs)
        sq == Mat([i \in 1..Len(xs) |-> Mul(Sub(xs[i], mu), Sub(xs[i], mu))])
    IN  Sqrt(Div(FSum(sq), FromInt(Len(xs) - 1)))

\* Series.rolling(window).std(): min_periods defaults to the window.
RollingStd(vals, window, min_periods) ==
    Mat([i \in 1..Len(vals) |->
        LET win == Valid(vals, Max2(1, i - window + 1), i)
        IN  IF Len(win) >= min_periods THEN SampleStd(win) ELSE FNaN])

\* Series.ewm(alpha, adjust).mean() after position i: the weighted average,
\* the weight carried by it and the number of observations seen.
RECURSIVE EwmState(_, _, _, _)
EwmState(vals, alpha, adjust, i) ==
    IF i = 1
    THEN [avg |-> vals[1], old_wt |-> FromInt(1), nobs |-> IF IsSet(vals[1]) THEN 1 ELSE 0]
    ELSE LET prev == EwmState(vals, alpha, adjust, i - 1)
             cur == vals[i]
             nobs == prev.nobs + (IF IsSet(cur) THEN 1 ELSE 0)
             new_wt == IF adjust THEN FromInt(1) ELSE alpha
             old_wt == Mul(prev.old_wt, Sub(FromInt(1), alpha))
         IN  IF IsSet(prev.avg)
             THEN IF IsSet(cur)
                  THEN [avg |-> IF prev.avg # cur
                                THEN Div(Add(Mul(old_wt, prev.avg), Mul(new_wt, cur)),
                                         Add(old_wt, new_wt))
                                ELSE prev.avg,
                        old_wt |-> IF adjust THEN Add(old_wt, new_wt) ELSE FromInt(1),
                        nobs |-> nobs]
                  ELSE [avg |-> prev.avg, old_wt |-> old_wt, nobs |-> nobs]
             ELSE [avg |-> cur, old_wt |-> prev.old_wt, nobs |-> nobs]

EwmMean(vals, alpha, adjust, min_periods) ==
    Mat([i \in 1..Len(vals) |->
        LET st == EwmState(vals, alpha, adjust, i)
        IN  IF st.nobs >= min_periods THEN st.avg ELSE FNaN])

\* A moving average that waits for a full window.
smaStrict(series, period) == RollingMean(series, period, period)

sma(series, period) == RollingMean(series, period, 1)

\* An exponential average with pandas' default adjust=True weighting.
emaAdjusted(series, period) ==
    EwmMean(series, Div(FromInt(2), FromInt(period + 1)), TRUE, 1)

ema(series, period) ==
    EwmMean(series, Div(FromInt(2), FromInt(period + 1)), FALSE, 1)

\* series.diff(): NaN at the first position.
DiffV(series) ==
    Mat([i \in 1..Len(series) |-> IF i = 1 THEN FNaN ELSE Sub(series[i], series[i - 1])])

\* An RSI formula without the "1 +" of the denominator.
RsiOfRatio(avg_gain, avg_loss) ==
    LET rs == Div(avg_gain, Add(avg_loss, EPS))
    IN  Sub(FromInt(100), Div(FromInt(100), rs))

RsiOf(avg_gain, avg_loss) ==
    LET rs == Div(avg_gain, Add(avg_loss, EPS))
    IN  Sub(FromInt(100), Div(FromInt(100), Add(FromInt(1), rs)))

\* An RSI whose averages are available from the first observation.
rsiNoWarmup(series, period) ==
    LET delta == DiffV(series)
        gain == Mat([i \in 1..Len(series) |->
                    IF Greater(delta[i], Zero) THEN delta[i] ELSE Zero])
        loss == Mat([i \in 1..Len(series) |->
                    IF Less(delta[i], Zero) THEN Neg(delta[i]) ELSE Zero])
        avg_gain == EwmMean(gain, Div(FromInt(1), FromInt(period)), TRUE, 1)
        avg_loss == EwmMean(loss, Div(FromInt(1), FromInt(period)), TRUE, 1)
    IN  Mat([i \in 1..Len(series) |-> RsiOf(avg_gain[i], avg_loss[i])])

\* np.where(delta > 0, delta, 0): the comparison with the NaN of the first
\* position is False, so gain and loss are 0 there.
rsi(series, period) ==
    LET delta == DiffV(series)
        gain == Mat([i \in 1..Len(series) |->
                    IF Greater(delta[i], Zero) THEN delta[i] ELSE Zero])
        loss == Mat([i \in 1..Len(series) |->
                    IF Less(delta[i], Zero) THEN Neg(delta[i]) ELSE Zero])
        avg_gain == EwmMean(gain, Div(FromInt(1), FromInt(period)), TRUE, period)
        avg_loss == EwmMean(loss, Div(FromInt(1), FromInt(period)), TRUE, period)
    IN  Mat([i \in 1..Len(series) |-> RsiOf(avg_gain[i], avg_loss[i])])

\* Bands placed one deviation below and std_dev deviations above the middle.
bollinger_bandsLopsided(series, period, std_dev) ==
    LET middle == sma(series, period)
        std == RollingStd(series, period, period)
    IN  [upper |-> Mat([i \in 1..Len(series) |-> Add(middle[i], Mul(std_dev, std[i]))]),
         middle |-> middle,
         lower |-> Mat([i \in 1..Len(series) |-> Sub(middle[i], std[i])])]

bollinger_bands(series, period, std_dev) ==
    LET middle == sma(series, period)
        std == RollingStd(series, period, period)
    IN  [upper |-> Mat([i \in 1..Len(series) |-> Add(middle[i], Mul(std_dev, std[i]))]),
         middle |-> middle,
         lower |-> Mat([i \in 1..Len(series) |-> Sub(middle[i], Mul(std_dev, std[i]))])]

\* pd.concat([...], axis=1).max(axis=1): the largest set entry, NaN if none.
RowMaxV(xs) ==
    LET set == Valid(xs, 1, Len(xs))
    IN  IF set = <<>> THEN FNaN
        ELSE CHOOSE x \in Range(set) : \A y \in Range(set) : ~Less(x, y)

TrueRange(high, low, close) ==
    Mat([i \in 1..Len(close) |->
        LET tr1 == Sub(high[i], low[i])
            tr2 == IF i = 1 THEN FNaN ELSE FAbs(Sub(high[i], close[i - 1]))
            tr3 == IF i = 1 THEN FNaN ELSE FAbs(Sub(low[i], close[i - 1]))
        IN  RowMaxV(<<tr1, tr2, tr3>>)])

\* An ATR averaging whatever part of the window is available.
atrRelaxed(high, low, close, period) ==
    RollingMean(TrueRange(high, low, close), period, 1)

atr(high, low, close, period) ==
    RollingMean(TrueRange(high, low, close), period, period)

\* The directional-movement step of adx.  plus_dm = high.diff() and
\* minus_dm = -low.diff(); Series.where keeps a value where the condition is
\* True and puts 0 elsewhere (a comparison with NaN is False).  The second
\* where compares minus_dm with the plus_dm the first where has produced.
DirectionalMovement(high, low) ==
    LET up == DiffV(high)
        down == Mat([i \in 1..Len(low) |-> Neg(DiffV(low)[i])])
        plus_dm == Mat([i \in 1..Len(high) |->
                       IF Greater(up[i], down[i]) /\ Greater(up[i], Zero)
                       THEN up[i] ELSE Zero])
        minus_dm == Mat([i \in 1..Len(low) |->
                        IF Greater(down[i], plus_dm[i]) /\ Greater(down[i], Zero)
                        THEN down[i] ELSE Zero])
    IN  [plus_dm |-> plus_dm, minus_dm |-> minus_dm]

adx(high, low, close, period) ==
    LET dm == DirectionalMovement(high, low)
        n == Len(close)
        hundred == FromInt(100)
        tr == atr(high, low, close, 1)
        ema_tr == ema(tr, period)
        ema_plus == ema(dm.plus_dm, period)
        ema_minus == ema(dm.minus_dm, period)
        plus_di == Mat([i \in 1..n |-> Div(Mul(hundred, ema_plus[i]), Add(ema_tr[i], EPS))])
        minus_di == Mat([i \in 1..n |-> Div(Mul(hundred, ema_minus[i]), Add(ema_tr[i], EPS))])
        dx == Mat([i \in 1..n |->
                  Div(Mul(hundred, FAbs(Sub(plus_di[i], minus_di[i]))),
                      Add(Add(plus_di[i], minus_di[i]), EPS))])
    IN  ema(dx, period)

\* ------------------------------------------------------------------------
\* Calls of the indicator library on a small frame
\* ------------------------------------------------------------------------
SeriesVals == {1, 2, 3}   \* close prices of the frame
Periods == {2, 3}         \* indicator periods
StdDevs == {0, 2}         \* Bollinger band widths, in deviations

ColumnOf(df, name) == Mat([i \in 1..Len(df) |-> FromInt(df[i][name])])

\* One more bar: a bar without intraday range on volume 1, or a bar ranging
\* one unit either side of its close on volume 2.  Once a bar of the frame
\* ranges, the bars after it range too.
AppendBar(c, wide) ==
    /\ pc = "series"
    /\ Len(data) < MaxSeries
    /\ wide = 1 \/ \A i \in 1..Len(data) : data[i].high = data[i].low
    /\ data' = Append(data, [Bar(Symbols[1], Len(data) + 1, c) EXCEPT
                                !.high = c + wide, !.low = c - wide, !.volume = 1 + wide])
    /\ UNCHANGED <<pc, features, combined, features_data, y_pred, returns, report, indicator,
                 feature_cols, vintages, dirs, now, saved>>

ApplySma(period) ==
    /\ pc = "series" /\ data # <<>>
    /\ indicator' = [name |-> "sma", period |-> period,
                     out |-> sma(ColumnOf(data, "close"), period)]
    /\ pc' = "applied"
    /\ UNCHANGED <<data, features, combined, features_data, y_pred, returns, report,
                 feature_cols, vintages, dirs, now, saved>>

ApplyEma(period) ==
    /\ pc = "series" /\ data # <<>>
    /\ indicator' = [name |-> "ema", period |-> period,
                     out |-> ema(ColumnOf(data, "close"), period)]
    /\ pc' = "applied"
    /\ UNCHANGED <<data, features, combined, features_data, y_pred, returns, report,
                 feature_cols, vintages, dirs, now, saved>>

ApplyRsi(period) ==
    /\ pc = "series" /\ data # <<>>
    /\ indicator' = [name |-> "rsi", period |-> period,
                     out |-> rsi(ColumnOf(data, "close"), period)]
    /\ pc' = "applied"
    /\ UNCHANGED <<data, features, combined, features_data, y_pred, returns, report,
                 feature_cols, vintages, dirs, now, saved>>

ApplyBollinger(period, std_dev) ==
    /\ pc = "series" /\ data # <<>>
    /\ indicator' = [name |-> "bollinger_bands", period |-> period, std_dev |-> std_dev,
                     out |-> bollinger_bands(ColumnOf(data, "close"), period,
                                             FromInt(std_dev))]
    /\ pc' = "applied"
    /\ UNCHANGED <<data, features, combined, features_data, y_pred, returns, report,
                 feature_cols, vintages, dirs, now, saved>>

ApplyAtr(period) ==
    /\ pc = "series" /\ data # <<>>
    /\ indicator' = [name |-> "atr", period |-> period,
                     out |-> atr(ColumnOf(data, "high"), ColumnOf(data, "low"),
                                 ColumnOf(data, "close"), period)]
    /\ pc' = "applied"
    /\ UNCHANGED <<data, features, combined, features_data, y_pred, returns, report,
                 feature_cols, vintages, dirs, now, saved>>

ApplyAdx(period) ==
    /\ pc = "series" /\ data # <<>>
    /\ Len(data) <= MaxAdxBars
    /\ indicator' =
           [name |-> "adx", period |-> period,
            dm |-> DirectionalMovement(ColumnOf(data, "high"), ColumnOf(data, "low")),
            out |-> adx(ColumnOf(data, "high"), ColumnOf(data, "low"),
                        ColumnOf(data, "close"), period)]
    /\ pc' = "applied"
    /\ UNCHANGED <<data, features, combined, features_data, y_pred, returns, report,
                 feature_cols, vintages, dirs, now, saved>>

ApplyObv ==
    /\ pc = "series" /\ data # <<>>
    /\ indicator' = [name |-> "obv", out |-> obv(data)]
    /\ pc' = "applied"
    /\ UNCHANGED <<data, features, combined, features_data, y_pred, returns, report,
                 feature_cols, vintages, dirs, now, saved>>

NoReport == [key \in {} |-> Zero]

NoIndicator == [name |-> "none"]

Models == <<"lightgbm", "xgboost">>

NoColumns == [consumer |-> "none", cols |-> <<>>, feature_names |-> <<>>]

\* No table has been consumed and the vintage store is empty.
Idle ==
    /\ feature_cols = NoColumns
    /\ vintages = <<>>
    /\ dirs = {}
    /\ now = 1
    /\ saved = [m \in {Models[k] : k \in 1..Len(Models)} |-> <<>>]

Init ==
    /\ data = <<>>
    /\ pc = "fetch"
    /\ features = NoTable
    /\ combined = NoTable
    /\ features_data = NoDict
    /\ y_pred = <<>>
    /\ returns = <<>>
    /\ report = NoReport
    /\ indicator = NoIndicator
    /\ Idle

Next ==
    \/ \E sym \in Range(Symbols) : \E c \in CloseValsOf(sym) : FetchBar(sym, c)
    \/ FinishFetch
    \/ \E i \in 1..MaxShuffle : ShuffleRows(i)
    \/ \E sym \in Range(Symbols) : EngineerFeatures(sym)
    \/ ProcessAllSymbols

Spec == Init /\ [][Next]_vars

NextLong ==
    \/ FetchBarLong
    \/ FetchBarLongOther
    \/ FinishFetch
    \/ ProcessAllSymbols
    \/ StepFeatureEngineering
    \/ StepTrainModels
    \/ ExportAllModels
    \/ \E has_names \in BOOLEAN : StepTrainOnlineModels(has_names)

SpecLong == Init /\ [][NextLong]_vars

InitMetrics ==
    /\ data = <<>>
    /\ pc = "predict"
    /\ features = NoTable
    /\ combined = NoTable
    /\ features_data = NoDict
    /\ y_pred = <<>>
    /\ returns = <<>>
    /\ report = NoReport
    /\ indicator = NoIndicator
    /\ Idle

NextMetrics ==
    \/ \E p \in {0, 1}, r \in RetVals : Observe(p, r)
    \/ CalculateTradingMetrics

SpecMetrics == InitMetrics /\ [][NextMetrics]_vars

InitIndicators ==
    /\ data = <<>>
    /\ pc = "series"
    /\ features = NoTable
    /\ combined = NoTable
    /\ features_data = NoDict
    /\ y_pred = <<>>
    /\ returns = <<>>
    /\ report = NoReport
    /\ indicator = NoIndicator
    /\ Idle

NextIndicators ==
    \/ \E c \in SeriesVals, wide \in {0, 1} : AppendBar(c, wide)
    \/ \E period \in Periods : ApplySma(period)
    \/ \E period \in Periods : ApplyEma(period)
    \/ \E period \in Periods : ApplyRsi(period)
    \/ \E period \in Periods, std_dev \in StdDevs : ApplyBollinger(period, std_dev)
    \/ \E period \in Periods : ApplyAtr(period)
    \/ \E period \in Periods : ApplyAdx(period)
    \/ ApplyObv

SpecIndicators == InitIndicators /\ [][NextIndicators]_vars

\* ------------------------------------------------------------------------
\* VintageManager (vintage_manager.py).  vintages is the manifest list,
\* newest first; dirs the vintage directories on disk, each named by model
\* and version; now the wall clock in minutes, which is the version string;
\* saved the versions under which each model has been saved so far.
\* ------------------------------------------------------------------------
MAX_VINTAGES == 4

\* [v for v in vintages if v['modelName'] == model_name]
get_vintages_for_model(vs, model_name) ==
    SelectSeq(vs, LAMBDA v : v.modelName = model_name)

\* list.sort(key=version, reverse=True): descending versions, entries of
\* equal version in their original order.
SortByVersion(vs) ==
    LET n == Len(vs)
        rank == [i \in 1..n |->
                    1 + Cardinality({j \in 1..n :
                            \/ vs[j].version > vs[i].version
                            \/ vs[j].version = vs[i].version /\ j < i})]
    IN  [k \in 1..n |-> vs[CHOOSE i \in 1..n : rank[i] = k]]

\* The entries _cleanup_old_vintages picks for removal.
ToRemove(vs, model_name) ==
    LET model_vintages == get_vintages_for_model(vs, model_name)
    IN  IF Len(model_vintages) > MAX_VINTAGES
        THEN SubSeq(SortByVersion(model_vintages), MAX_VINTAGES + 1, Len(model_vintages))
        ELSE <<>>

\* _cleanup_old_vintages: for every picked entry, the list keeps the
\* entries whose version differs from the picked entry's version.
cleanup_old_vintages(vs, model_name) ==
    LET gone == {v.version : v \in Range(ToRemove(vs, model_name))}
    IN  SelectSeq(vs, LAMBDA v : v.version \notin gone)

\* The wall clock reaches the next minute.
Tick ==
    /\ pc = "vintage"
    /\ now < MaxClock
    /\ now' = now + 1
    /\ UNCHANGED <<data, pc, features, combined, features_data, y_pred, returns, report,
                   indicator, feature_cols, vintages, dirs, saved>>

\* save_current_as_vintage: make the directory, insert the entry at the
\* front, clean up (list and directories), save the manifest.
SaveCurrentAsVintage(model_name) ==
    /\ pc = "vintage"
    /\ Len(saved[model_name]) <
           (IF model_name = Models[1] THEN MaxSaves ELSE MaxSavesOther)
    /\ LET version == now
           vintage_entry == [version |-> version, modelName |-> model_name,
                             path |-> <<model_name, version>>]
           inserted == <<vintage_entry>> \o vintages
       IN  /\ vintages' = cleanup_old_vintages(inserted, model_name)
           /\ dirs' = (dirs \cup {vintage_entry.path})
                          \ {v.path : v \in Range(ToRemove(inserted, model_name))}
    /\ saved' = [saved EXCEPT ![model_name] = Append(@, now)]
    /\ UNCHANGED <<data, pc, features, combined, features_data, y_pred, returns, report,
                   indicator, feature_cols, now>>

InitVintage ==
    /\ data = <<>>
    /\ pc = "vintage"
    /\ features = NoTable
    /\ combined = NoTable
    /\ features_data = NoDict
    /\ y_pred = <<>>
    /\ returns = <<>>
    /\ report = NoReport
    /\ indicator = NoIndicator
    /\ Idle

NextVintage ==
    \/ Tick
    \/ \E model_name \in Range(Models) : SaveCurrentAsVintage(model_name)

SpecVintage == InitVintage /\ [][NextVintage]_vars

\* Calls of the three function groups, made one after another in any order
\* on small inputs.
InitCalls == Init \/ InitMetrics \/ InitIndicators

NextCalls ==
    \/ \E sym \in Range(Symbols) : \E c \in CloseValsOf(sym) :
           Len(data) < MaxCall /\ FetchBar(sym, c)
    \/ FinishFetch
    \/ \E i \in 1..MaxShuffle : ShuffleRows(i)
    \/ \E sym \in Range(Symbols) : EngineerFeatures(sym)
    \/ \E sym \in Range(Symbols) : EngineerAgain(sym)
    \/ \E p \in {0, 1}, r \in RetVals : Len(y_pred) < MaxCallLen /\ Observe(p, r)
    \/ CalculateTradingMetrics
    \/ \E c \in SeriesVals, wide \in {0, 1} : Len(data) < MaxCall /\ AppendBar(c, wide)
    \/ \E period \in Periods : ApplySma(period)
    \/ \E period \in Periods : ApplyEma(period)
    \/ \E period \in Periods : ApplyRsi(period)
    \/ \E period \in Periods, std_dev \in StdDevs : ApplyBollinger(period, std_dev)
    \/ \E period \in Periods : ApplyAtr(period)
    \/ \E period \in Periods : ApplyAdx(period)
    \/ ApplyObv

SpecCalls == InitCalls /\ [][NextCalls]_vars

\* ------------------------------------------------------------------------
\* Properties
\* ------------------------------------------------------------------------
\* The value of a cell over the sorted frame s: the bars it is computed
\* from, or nothing when it is NaN.
CellValue(s, cell) == IF cell.set THEN SubSeq(s, cell.lo, cell.hi) ELSE <<>>

FracEq(a, b) == a.num * b.den = b.num * a.den

C2_NoUnsetRows ==
    /\ \A i \in 1..Len(features) : ~HasNaN(features[i])
    /\ \A i \in 1..Len(combined) : ~HasNaN(combined[i])
    /\ \A sym \in DOMAIN features_data :
           \A i \in 1..Len(features_data[sym]) : ~HasNaN(features_data[sym][i])

C4_TargetDirection ==
    pc = "engineered" =>
        \A i \in 1..(Len(features) - 1) :
            features[i].target = (IF features[i + 1].close > features[i].close THEN 1 ELSE 0)

\* A table with a rising step labelled 1 and a flat step labelled 0.
C4_Witness ==
    /\ pc = "engineered"
    /\ \E i, j \in 1..(Len(features) - 1) :
           /\ features[i + 1].close > features[i].close /\ features[i].target = 1
           /\ features[j + 1].close = features[j].close /\ features[j].target = 0

\* C5: on every row that has a next bar, target_return is the simple
\* next-bar return (close[i+1] - close[i]) / close[i].
C5_SimpleReturn ==
    pc = "engineered" =>
        \A i \in 1..(Len(features) - 1) :
            FracEq(features[i].target_return,
                   Frac(features[i + 1].close - features[i].close, features[i].close))

\* C6: the report always has exactly the nine keys, and when no strategy
\* return remains it is the fixed report.
C6_DegenerateReport ==
    pc = "evaluated" =>
        /\ DOMAIN report = ReportKeys
        /\ Len(StrategyReturns(y_pred, returns)) = 0 =>
               report = [sharpe_ratio |-> FromInt(0), max_drawdown |-> FromInt(0),
                         win_rate |-> FromInt(0), profit_factor |-> FromInt(1),
                         total_trades |-> 0, avg_return |-> FromInt(0),
                         volatility |-> FromInt(0), calmar_ratio |-> FromInt(0),
                         sortino_ratio |-> FromInt(0)]

C6_Witness ==
    /\ pc = "evaluated"
    /\ returns = <<>>
    /\ report.profit_factor = FromInt(1)
    /\ report.total_trades = 0

\* C7: win_rate lies in [0, 1].
C7_WinRateRange ==
    pc = "evaluated" =>
        LessEq(Zero, report.win_rate) /\ LessEq(report.win_rate, FromInt(1))

\* C8: max_drawdown is <= 0.
C8_MaxDrawdownNonPositive ==
    pc = "evaluated" => LessEq(report.max_drawdown, Zero)

\* C9: every clipped metric lies inside its clip interval.
C9_ClipIntervals ==
    pc = "evaluated" =>
        /\ \A key \in {"sharpe_ratio", "calmar_ratio", "sortino_ratio"} :
               LessEq(FromInt(-10), report[key]) /\ LessEq(report[key], FromInt(10))
        /\ LessEq(Zero, report.profit_factor) /\ LessEq(report.profit_factor, FromInt(10))

\* C10: a non-finite entry of positions * returns counts as a strategy
\* return of 0: the report is the one obtained with that return set to 0.
C10_NonFiniteAsZero ==
    pc = "evaluated" =>
        report = calculate_trading_metrics(y_pred,
                     [i \in 1..Len(returns) |->
                         IF IsFinite(returns[i]) THEN returns[i] ELSE Zero])

\* C11: every value of the report is a finite number, whatever NaN or
\* infinite entries the returns contain.
C11_ReportFinite ==
    pc = "evaluated" =>
        \A key \in ReportKeys \ {"total_trades"} : IsFinite(report[key])

\* C12: always long on returns that all equal one positive constant c above
\* the trade threshold: every strategy return is c, avg_return = c,
\* sharpe_ratio > 0, max_drawdown = 0, win_rate = 1 and profit_factor = 10.
C12_AlwaysLongConstant ==
    (/\ pc = "evaluated"
     /\ Len(y_pred) > 0
     /\ \A i \in 1..Len(y_pred) : y_pred[i] = 1
     /\ IsFinite(returns[1]) /\ Greater(returns[1], Norm(1, -6))
     /\ \A i \in 1..Len(returns) : returns[i] = returns[1])
    =>
        /\ StrategyReturns(y_pred, returns) = returns
        /\ report.avg_return = returns[1]
        /\ Greater(report.sharpe_ratio, FromInt(0))
        /\ report.max_drawdown = FromInt(0)
        /\ report.win_rate = FromInt(1)
        /\ report.profit_factor = FromInt(10)
        /\ report.total_trades = Len(returns)

\* Three always-long days of +1%.
C12_Witness ==
    /\ pc = "evaluated"
    /\ y_pred = <<1, 1, 1>>
    /\ returns = <<Norm(1, -2), Norm(1, -2), Norm(1, -2)>>
    /\ report.win_rate = FromInt(1)

\* C13: SMA has the length of its input and is set at every position; at
\* position i it is the mean of the last min(i, period) values (positions
\* counted from 1).  For closes 10,11,12,11,10,9,10,11,12,13 and period 3 it
\* is 11 at the third position and 12 at the tenth.
C13_SmaMean ==
    indicator.name = "sma" =>
        LET x == ColumnOf(data, "close")
            p == indicator.period
            out == indicator.out
            example == sma(Mat([i \in 1..10 |->
                               FromInt(<<10, 11, 12, 11, 10, 9, 10, 11, 12, 13>>[i])]), 3)
        IN  /\ Len(out) = Len(x)
            /\ \A i \in 1..Len(x) :
                   /\ IsSet(out[i])
                   /\ out[i] = Div(FSum(SubSeq(x, Max2(1, i - p + 1), i)), FromInt(Min2(i, p)))
            /\ example[3] = FromInt(11)
            /\ example[10] = FromInt(12)

C13_Witness ==
    /\ indicator.name = "sma"
    /\ indicator.period = 3
    /\ Len(indicator.out) = 4
    /\ indicator.out[1] = FromInt(data[1].close)
    /\ indicator.out[4] # indicator.out[3]

\* C14: EMA is set from the first position and follows the recurrence
\* ema[1] = x[1], ema[i] = a * x[i] + (1 - a) * ema[i-1] with
\* a = 2 / (period + 1); on a constant series EMA and SMA equal the series.
C14_EmaRecurrence ==
    indicator.name = "ema" =>
        LET x == ColumnOf(data, "close")
            p == indicator.period
            out == indicator.out
            a == Div(FromInt(2), FromInt(p + 1))
        IN  /\ Len(out) = Len(x)
            /\ out[1] = x[1]
            /\ \A i \in 2..Len(x) :
                   /\ IsSet(out[i])
                   /\ out[i] = Add(Mul(a, x[i]), Mul(Sub(FromInt(1), a), out[i - 1]))
            /\ (\A i \in 1..Len(x) : x[i] = x[1]) => (out = x /\ sma(x, p) = x)

C14_Witness ==
    /\ indicator.name = "ema"
    /\ Len(indicator.out) = 4
    /\ indicator.out[1] = FromInt(data[1].close)
    /\ indicator.out[4] # FromInt(data[4].close)
    /\ indicator.out[4] # indicator.out[3]

\* C15: RSI lies in [0, 100] at every set position.
C15_RsiRange ==
    indicator.name = "rsi" =>
        \A i \in 1..Len(indicator.out) :
            IsSet(indicator.out[i]) =>
                /\ LessEq(FromInt(0), indicator.out[i])
                /\ LessEq(indicator.out[i], FromInt(100))

C15_Witness ==
    /\ indicator.name = "rsi"
    /\ \E i \in 1..Len(indicator.out) :
           /\ Less(FromInt(0), indicator.out[i])
           /\ Less(indicator.out[i], FromInt(100))

\* C16: RSI has the length of its input, is unset before the period-th
\* observation and set from the period-th observation on.
C16_RsiWarmup ==
    indicator.name = "rsi" =>
        /\ Len(indicator.out) = Len(data)
        /\ \A i \in 1..Len(indicator.out) :
               IsSet(indicator.out[i]) <=> i >= indicator.period

C16_Witness ==
    /\ indicator.name = "rsi"
    /\ indicator.period = 3
    /\ Len(indicator.out) = 4
    /\ ~IsSet(indicator.out[2])
    /\ IsSet(indicator.out[3])

\* C17: on a constant series RSI is, at every position, unset or 50.
C17_RsiFlat ==
    (/\ indicator.name = "rsi"
     /\ \A i \in 1..Len(data) : data[i].close = data[1].close)
    =>
        \A i \in 1..Len(indicator.out) :
            ~IsSet(indicator.out[i]) \/ indicator.out[i] = FromInt(50)

\* C18: the middle band is set at every position; the upper and lower bands
\* are unset before the period-th position; wherever the rolling std is set,
\* upper = middle + k * std, lower = middle - k * std and
\* upper >= middle >= lower.
C18_BollingerBands ==
    indicator.name = "bollinger_bands" =>
        LET x == ColumnOf(data, "close")
            p == indicator.period
            k == FromInt(indicator.std_dev)
            std == RollingStd(x, p, p)
            upper == indicator.out.upper
            middle == indicator.out.middle
            lower == indicator.out.lower
        IN  \A i \in 1..Len(x) :
                /\ IsSet(middle[i])
                /\ i < p => (~IsSet(upper[i]) /\ ~IsSet(lower[i]))
                /\ i >= p => IsSet(std[i])
                /\ IsSet(std[i]) =>
                       /\ upper[i] = Add(middle[i], Mul(k, std[i]))
                       /\ lower[i] = Sub(middle[i], Mul(k, std[i]))
                       /\ LessEq(lower[i], middle[i])
                       /\ LessEq(middle[i], upper[i])

C18_Witness ==
    /\ indicator.name = "bollinger_bands"
    /\ indicator.std_dev = 2
    /\ ~IsSet(indicator.out.upper[1])
    /\ \E i \in 1..Len(data) :
           /\ Less(indicator.out.lower[i], indicator.out.middle[i])
           /\ Less(indicator.out.middle[i], indicator.out.upper[i])

\* C19: with high >= low on every bar, ATR is unset before the period-th bar
\* and from then on is the mean of the last period true ranges, which is >= 0.
C19_AtrStrictNonNegative ==
    (/\ indicator.name = "atr"
     /\ \A i \in 1..Len(data) : data[i].high >= data[i].low)
    =>
        LET p == indicator.period
            out == indicator.out
            tr == TrueRange(ColumnOf(data, "high"), ColumnOf(data, "low"),
                            ColumnOf(data, "close"))
        IN  \A i \in 1..Len(data) :
                /\ IsSet(out[i]) <=> i >= p
                /\ IsSet(out[i]) =>
                       /\ LessEq(FromInt(0), out[i])
                       /\ out[i] = Div(FSum(SubSeq(tr, i - p + 1, i)), FromInt(p))

C19_Witness ==
    /\ indicator.name = "atr"
    /\ ~IsSet(indicator.out[1])
    /\ \E i \in 1..Len(data) : Less(FromInt(0), indicator.out[i])

\* C20: OBV starts at 0 and every later value adds the bar's volume signed
\* by the direction of the close.
C20_ObvFromZero ==
    indicator.name = "obv" =>
        /\ indicator.out[1] = Frac(0, 1)
        /\ \A i \in 2..Len(data) :
               indicator.out[i] =
                   Frac(indicator.out[i - 1].num
                            + Sign(data[i].close - data[i - 1].close) * data[i].volume, 1)

\* C21: the feature-column set of prepare_data contains none of date, symbol,
\* asset_class, close, target, target_return, sma_5, sma_10, sma_20, sma_50,
\* ema_5, ema_10, ema_20, ema_50, volume_sma_5, volume_sma_10 and obv, and
\* it contains every other column of the table, in table order.
C21_PrepareDataColumns ==
    feature_cols.consumer = "prepare_data" =>
        LET named == {"date", "symbol", "asset_class", "close", "target", "target_return",
                      "sma_5", "sma_10", "sma_20", "sma_50",
                      "ema_5", "ema_10", "ema_20", "ema_50",
                      "volume_sma_5", "volume_sma_10", "obv"}
            cols == feature_cols.cols
        IN  /\ Range(cols) \cap named = {}
            /\ Range(cols) = Range(Columns) \ named
            /\ \A i, j \in 1..Len(cols) :
                   i < j => \E a, b \in 1..Len(Columns) :
                                a < b /\ Columns[a] = cols[i] /\ Columns[b] = cols[j]

C21_Witness ==
    /\ feature_cols.consumer = "prepare_data"
    /\ Len(feature_cols.cols) = 55
    /\ feature_cols.cols[1] = "returns_1d"
    /\ feature_cols.cols[55] = "zscore"
    /\ "rsi_14" \in Range(feature_cols.cols)

\* C28: no consumer's feature-column set (prepare_data, export_all_models,
\* train_online_models with the scaler's names or on its fallback path)
\* contains target or target_return.
C28_NoLabelInFeatures ==
    Range(feature_cols.cols) \cap {"target", "target_return"} = {}

\* C24: in step_feature_engineering a symbol contributes to training only if
\* its table still has more than the minimum row threshold (100 rows) after
\* the warm-up and unset rows are dropped.
C24_SkipShortAfterDrop ==
    \A sym \in DOMAIN features_data : Len(dropna(features_data[sym])) > MIN_ROWS

\* C30: the two label columns agree in sign.  For strictly positive closes,
\* at every row where target_return is set, target = 1 iff target_return > 0
\* and target = 0 iff target_return <= 0, hence a prediction equal to target
\* earns a strategy return on that row that is never negative.
C30_LabelsAgree ==
    pc = "engineered" =>
        \A i \in 1..Len(features) :
            LET r == features[i].target_return
                earned == StrategyReturns(<<features[i].target>>,
                                          <<Div(FromInt(r.num), FromInt(r.den))>>)
            IN  r # NaN =>
                    /\ r.den > 0
                    /\ features[i].target = 1 <=> r.num > 0
                    /\ features[i].target = 0 <=> r.num <= 0
                    /\ Len(earned) = 1 /\ ~Less(earned[1], Zero)

\* A table with a rising, a falling and a flat step, labelled 1, 0 and 0.
C30_Witness ==
    /\ pc = "engineered"
    /\ \E i, j, k \in 1..Len(features) :
           /\ features[i].target = 1 /\ features[i].target_return.num > 0
           /\ features[j].target = 0 /\ features[j].target_return.num < 0
           /\ features[k].target = 0 /\ features[k].target_return.num = 0
                                     /\ features[k].target_return # NaN

\* C25: engineer_features computes over the bars in ascending date order
\* whatever the order of the input rows.  For bars with unique dates, the
\* output for any permutation of the rows is the output for the rows in
\* ascending date order, and it has one row per input bar, dates ascending.
C25_SortInvariance ==
    pc = "engineered" =>
        LET sym == features[1].symbol
            n == Count(data, sym)
            ascending ==
                [k \in 1..n |-> CHOOSE r \in Range(data) : r.symbol = sym /\ r.date = k]
            own == SelectSeq2(data, sym)
        IN  /\ Len(features) = n
            /\ \A i \in 1..n : features[i].date = i
            /\ own # ascending => features = engineer_features(ascending)

\* A table engineered from three rows given latest bar first.
C25_Witness ==
    /\ pc = "engineered"
    /\ Len(features) = 3
    /\ LET own == SelectSeq2(data, features[1].symbol)
       IN  own[1].date = 3 /\ own[2].date = 2 /\ own[3].date = 1
    /\ features[1].close # features[3].close

C23_DirectionalMovement ==
    indicator.name = "adx" =>
        \A i \in 1..Len(data) :
            LET plus == indicator.dm.plus_dm[i]
                minus == indicator.dm.minus_dm[i]
                up == IF i = 1 THEN 0 ELSE data[i].high - data[i - 1].high
                down == IF i = 1 THEN 0 ELSE data[i - 1].low - data[i].low
            IN  /\ IsFinite(plus) /\ plus.m >= 0
                /\ IsFinite(minus) /\ minus.m >= 0
                /\ plus = Zero \/ minus = Zero
                /\ plus = (IF up > 0 /\ up > down THEN FromInt(up) ELSE Zero)
                /\ minus = (IF down > 0 /\ down > up THEN FromInt(down) ELSE Zero)

\* C29: symbols are processed in isolation.  In process_all_symbols and in
\* step_feature_engineering the rows of a symbol are what engineer_features
\* gives for that symbol's bars alone, whatever bars of other symbols the
\* frame holds; the last bar of a symbol has no next bar, so its label is
\* never taken from the first bar of the symbol that follows it.
C29_SymbolIsolation ==
    /\ pc = "processed" =>
           \A sym \in Range(unique(data, 1, Len(data))) :
               LET own == SelectSeq(data, LAMBDA r : r.symbol = sym)
                   rows == SelectSeq(combined, LAMBDA r : r.symbol = sym)
               IN  /\ rows = dropna(engineer_features(own))
                   /\ \A k \in 1..Len(rows) : rows[k].date < Len(own)
    /\ pc = "features" =>
           \A sym \in DOMAIN features_data :
               LET own == SelectSeq(data, LAMBDA r : r.symbol = sym)
                   table == features_data[sym]
               IN  /\ table = engineer_features(own)
                   /\ table[Len(table)].date = Len(own)
                   /\ table[Len(table)].target_return = NaN
                   /\ table[Len(table)].target = 0

\* Two symbols in one frame, both with rows that survive the drop-NaN step.
C29_Witness ==
    /\ pc = "processed"
    /\ \E i, j \in 1..Len(combined) :
           combined[i].symbol = Symbols[1] /\ combined[j].symbol = Symbols[2]
    /\ Count(data, Symbols[2]) = MaxBarsLongOther

\* C26: the manifest holds at most MAX_VINTAGES (4) vintages per model and
\* they are the most recent ones: a model saved k times retains exactly its
\* min(k, 4) latest vintages, each with its directory.
C26_KeepsLatestFour ==
    \A m \in Range(Models) :
        LET kept == get_vintages_for_model(vintages, m)
            k == Len(saved[m])
        IN  /\ Len(kept) <= 4
            /\ Len(kept) = Min2(k, 4)
            /\ \A i \in 1..Len(kept) : kept[i].version = saved[m][k + 1 - i]
            /\ \A i \in 1..Len(kept) : kept[i].path \in dirs

\* C27: saving a vintage for one model never removes or alters the manifest
\* entries or the directories of any other model, also when the models share
\* a version string because they were saved within the same minute.
C27_OtherModelsUntouched ==
    [][\A m \in Range(Models) :
           saved'[m] = saved[m] =>
               /\ get_vintages_for_model(vintages', m) = get_vintages_for_model(vintages, m)
               /\ {d \in dirs' : d[1] = m} = {d \in dirs : d[1] = m}]_vars

====
